---------------------------- MODULE Spec2Model ----------------------------
(***************************************************************************)
(* Model of the objclient package of haiwen/goutils:                       *)
(*   - TimeoutReader (objclient.go): Read, Close and the timer goroutine,  *)
(*     under specification Spec, with a discrete clock;                    *)
(*   - S3Client and OSSClient (s3.go, oss.go): Write, Read, Copy, Remove   *)
(*     and List against a bucket, under specification SpecStore;           *)
(*   - NewS3Client (s3.go): configuration resolution and the SSE-C checks, *)
(*     under specification SpecConfig.                                     *)
(* The vendor SDKs (minio, aliyun-oss) are external: their results are     *)
(* nondeterministic choices over the outcomes their API allows.            *)
(***************************************************************************)
EXTENDS Integers, Sequences, FiniteSets, TLC

(***************************************************************************)
(* Bounds of the model.                                                    *)
(***************************************************************************)
\* model time units in one ticker period (the period is 30 s in the source)
TickUnits == 3
\* the clock stops advancing here
MaxTime == 10
\* largest byte count one Read returns
MaxN == 2
\* Read is not taken when the counter would exceed this
MaxReaded == 3
\* number of Close calls made on one reader
MaxCloses == 2

VARIABLES
    \* ---- TimeoutReader ----
    now,           \* the clock
    tickPending,   \* ticker.C holds a tick
    tpc,           \* position of the timer goroutine
    readed,        \* reader.readed
    closed,        \* reader.closed
    hasC,          \* reader.c != nil
    ctxCancelled,  \* the context of reader.cancel is cancelled
    timerCancels,  \* calls of reader.cancel made by timer()
    closeCancels,  \* calls of reader.cancel made by Close()
    cCloseCalls,   \* calls of reader.c.Close()
    rpc,           \* position of a Read call
    rn,            \* n returned by reader.r.Read in the Read call under way
    cpc,           \* position of a Close call
    closeCalls,    \* Close calls started
    closesDone,    \* Close calls that returned
    lastByte,      \* time at which the last byte was returned by reader.r
    closeTime,     \* time of the first Close call
    delivered,     \* bytes returned through Read since the timer's last Swap
    closedAtLoad,  \* value of reader.closed.Load() at the timer's last check
    recvAfterClose,\* ticks the timer received after the closed flag was set
    tickOutcome,   \* how the timer's last tick handling ended
    closedAtCancel,\* value of reader.closed when timer() called reader.cancel
    deliveredAtSwap,\* value of delivered at the timer's last Swap
    \* ---- clients ----
    adapter,       \* "S3" or "OSS"
    store,         \* the bucket: key -> [exists, size]
    ret,           \* what the last client call did and returned
    \* ---- NewS3Client ----
    cfg,           \* the S3Config passed
    newRes         \* what NewS3Client did and returned

readerVars == <<now, tickPending, tpc, readed, closed, hasC, ctxCancelled,
                timerCancels, closeCancels, cCloseCalls, rpc, rn, cpc,
                closeCalls, closesDone, lastByte, closeTime, delivered,
                closedAtLoad, recvAfterClose, tickOutcome, closedAtCancel,
                deliveredAtSwap>>
storeVars == <<adapter, store, ret>>
configVars == <<cfg, newRes>>
vars == <<readerVars, storeVars, configVars>>

(***************************************************************************)
(* Characters and strings. Keys are sequences of characters.               *)
(***************************************************************************)
LowerOf(c) ==
    CASE c = "F" -> "f"
      [] c = "G" -> "g"
      [] OTHER -> c

\* strings.ToLower
ToLower(s) == [i \in 1..Len(s) |-> LowerOf(s[i])]

\* strings.HasPrefix
HasPrefix(s, p) == Len(p) <= Len(s) /\ SubSeq(s, 1, Len(p)) = p

\* stringToBool
stringToBool(s, defaults) == IF defaults THEN s # "false" ELSE s = "true"

(***************************************************************************)
(* TimeoutReader                                                           *)
(***************************************************************************)
\* newTimeoutReader: the state right after construction, timer() started
ReaderInit ==
    /\ now = 0
    /\ tickPending = FALSE
    /\ tpc = "wait"
    /\ readed = 0
    /\ closed = FALSE
    /\ hasC \in BOOLEAN
    /\ ctxCancelled = FALSE
    /\ timerCancels = 0
    /\ closeCancels = 0
    /\ cCloseCalls = 0
    /\ rpc = "idle"
    /\ rn = 0
    /\ cpc = "idle"
    /\ closeCalls = 0
    /\ closesDone = 0
    /\ lastByte = 0
    /\ closeTime = 0
    /\ delivered = 0
    /\ closedAtLoad = FALSE
    /\ recvAfterClose = 0
    /\ tickOutcome = "none"
    /\ closedAtCancel = FALSE
    /\ deliveredAtSwap = 0

\* time.NewTicker(30 * time.Second): the clock advances while no goroutine is
\* in the middle of a step; every TickUnits the ticker puts a tick in its
\* channel unless timer() has returned (defer ticker.Stop()).
Tick ==
    /\ now < MaxTime
    /\ rpc = "idle"
    /\ cpc = "idle"
    /\ tpc \in {"wait", "done"}
    /\ ~(tpc = "wait" /\ tickPending)
    /\ now' = now + 1
    /\ tickPending' = (tpc = "wait" /\ (now + 1) % TickUnits = 0)
    /\ UNCHANGED <<tpc, readed, closed, hasC, ctxCancelled, timerCancels,
                   closeCancels, cCloseCalls, rpc, rn, cpc, closeCalls,
                   closesDone, lastByte, closeTime, delivered, closedAtLoad,
                   recvAfterClose, tickOutcome>>
    /\ UNCHANGED <<closedAtCancel, deliveredAtSwap>>

\* Read, first half: n, err := reader.r.Read(data)
ReadSrc ==
    /\ rpc = "idle"
    /\ \E n \in 0..MaxN :
         /\ readed + n <= MaxReaded
         /\ rn' = n
         /\ lastByte' = IF n > 0 THEN now ELSE lastByte
    /\ rpc' = "add"
    /\ UNCHANGED <<now, tickPending, tpc, readed, closed, hasC, ctxCancelled,
                   timerCancels, closeCancels, cCloseCalls, cpc, closeCalls,
                   closesDone, closeTime, delivered, closedAtLoad,
                   recvAfterClose, tickOutcome>>
    /\ UNCHANGED <<closedAtCancel, deliveredAtSwap>>

CounterAdd_Dropped(n) == readed' = readed

\* reader.readed.Add(int64(n))
CounterAdd(n) == readed' = readed + n

\* Read, second half: the Add, then return n, err
ReadAdd ==
    /\ rpc = "add"
    /\ CounterAdd(rn)
    /\ delivered' = delivered + rn
    /\ rpc' = "idle"
    /\ rn' = 0
    /\ UNCHANGED <<now, tickPending, tpc, closed, hasC, ctxCancelled,
                   timerCancels, closeCancels, cCloseCalls, cpc, closeCalls,
                   closesDone, lastByte, closeTime, closedAtLoad,
                   recvAfterClose, tickOutcome>>
    /\ UNCHANGED <<closedAtCancel, deliveredAtSwap>>

ClosedStore_Dropped == closed' = closed

\* reader.closed.Store(true)
ClosedStore == closed' = TRUE

\* Close, first statement
CloseStore ==
    /\ cpc = "idle"
    /\ closeCalls < MaxCloses
    /\ ClosedStore
    /\ closeCalls' = closeCalls + 1
    /\ closeTime' = IF closeCalls = 0 THEN now ELSE closeTime
    /\ cpc' = "cancel"
    /\ UNCHANGED <<now, tickPending, tpc, readed, hasC, ctxCancelled,
                   timerCancels, closeCancels, cCloseCalls, rpc, rn,
                   closesDone, lastByte, delivered, closedAtLoad,
                   recvAfterClose, tickOutcome>>
    /\ UNCHANGED <<closedAtCancel, deliveredAtSwap>>

\* Close, second statement: reader.cancel()
CloseCancel ==
    /\ cpc = "cancel"
    /\ ctxCancelled' = TRUE
    /\ closeCancels' = closeCancels + 1
    /\ cpc' = "release"
    /\ UNCHANGED <<now, tickPending, tpc, readed, closed, hasC, timerCancels,
                   cCloseCalls, rpc, rn, closeCalls, closesDone, lastByte,
                   closeTime, delivered, closedAtLoad, recvAfterClose,
                   tickOutcome>>
    /\ UNCHANGED <<closedAtCancel, deliveredAtSwap>>

\* Close, the rest: if reader.c != nil { reader.c.Close() }; return nil
CloseRelease ==
    /\ cpc = "release"
    /\ cCloseCalls' = IF hasC THEN cCloseCalls + 1 ELSE cCloseCalls
    /\ closesDone' = closesDone + 1
    /\ cpc' = "idle"
    /\ UNCHANGED <<now, tickPending, tpc, readed, closed, hasC, ctxCancelled,
                   timerCancels, closeCancels, rpc, rn, closeCalls, lastByte,
                   closeTime, delivered, closedAtLoad, recvAfterClose,
                   tickOutcome>>
    /\ UNCHANGED <<closedAtCancel, deliveredAtSwap>>

\* timer: <-ticker.C
TimerRecv ==
    /\ tpc = "wait"
    /\ tickPending
    /\ tickPending' = FALSE
    /\ tpc' = "load"
    /\ recvAfterClose' = IF closed THEN recvAfterClose + 1 ELSE recvAfterClose
    /\ UNCHANGED <<now, readed, closed, hasC, ctxCancelled, timerCancels,
                   closeCancels, cCloseCalls, rpc, rn, cpc, closeCalls,
                   closesDone, lastByte, closeTime, delivered, closedAtLoad,
                   tickOutcome>>
    /\ UNCHANGED <<closedAtCancel, deliveredAtSwap>>

AfterLoad_NoReturn(c) == "swap"

\* if reader.closed.Load() { return }
AfterLoad(c) == IF c THEN "done" ELSE "swap"

\* timer: the check of the closed flag
TimerLoadClosed ==
    /\ tpc = "load"
    /\ closedAtLoad' = closed
    /\ tpc' = AfterLoad(closed)
    /\ tickOutcome' = IF AfterLoad(closed) = "done" THEN "closed" ELSE tickOutcome
    /\ UNCHANGED <<now, tickPending, readed, closed, hasC, ctxCancelled,
                   timerCancels, closeCancels, cCloseCalls, rpc, rn, cpc,
                   closeCalls, closesDone, lastByte, closeTime, delivered,
                   recvAfterClose>>
    /\ UNCHANGED <<closedAtCancel, deliveredAtSwap>>

CounterSwap_Load == readed' = readed

\* reader.readed.Swap(0): the new value of the counter
CounterSwap == readed' = 0

\* timer: readed := reader.readed.Swap(0); if readed == 0 { ... }
TimerSwap ==
    /\ tpc = "swap"
    /\ CounterSwap
    /\ delivered' = 0
    /\ tpc' = IF readed = 0 THEN "cancel" ELSE "wait"
    /\ tickOutcome' = IF readed = 0 THEN tickOutcome ELSE "reset"
    /\ UNCHANGED <<now, tickPending, closed, hasC, ctxCancelled, timerCancels,
                   closeCancels, cCloseCalls, rpc, rn, cpc, closeCalls,
                   closesDone, lastByte, closeTime, closedAtLoad,
                   recvAfterClose>>
    /\ deliveredAtSwap' = delivered
    /\ UNCHANGED closedAtCancel

\* timer: reader.cancel(); return
TimerCancel ==
    /\ tpc = "cancel"
    /\ ctxCancelled' = TRUE
    /\ timerCancels' = timerCancels + 1
    /\ tpc' = "done"
    /\ tickOutcome' = "cancel"
    /\ UNCHANGED <<now, tickPending, readed, closed, hasC, closeCancels,
                   cCloseCalls, rpc, rn, cpc, closeCalls, closesDone, lastByte,
                   closeTime, delivered, closedAtLoad, recvAfterClose>>
    /\ closedAtCancel' = closed
    /\ UNCHANGED deliveredAtSwap


(***************************************************************************)
(* NewS3Client                                                             *)
(***************************************************************************)
\* the key length NewS3Client requires
SSECKeyLen == 32
\* longest SSE-C key tried
MaxSSECLen == 33

KeyOfLen(n) == [i \in 1..n |-> "k"]

BoolStrings == {"", "true", "false"}

S3Configs ==
    [Endpoint : {"", "minio.local"},
     Region : {"", "eu-west-1"},
     HTTPS : BoolStrings,
     Bucket : {"bucket"},
     PathStyleRequest : {"", "true"},
     KeyID : {"id"},
     Key : {"secret"},
     V4Signature : BoolStrings,
     SSECKey : {KeyOfLen(n) : n \in {0} \cup ((SSECKeyLen - 1)..MaxSSECLen)}]

NoClient ==
    [isNil |-> TRUE, bucket |-> "", sseckey |-> FALSE, endpoint |-> "",
     region |-> "", creds |-> "", secure |-> FALSE, lookup |-> ""]

NoResult ==
    [called |-> FALSE, err |-> "", client |-> NoClient, minioNew |-> FALSE]

\* region := config.Region; if v4Signature && region == "" { ... }
S3Region(config, v4Signature) ==
    IF v4Signature /\ config.Region = "" THEN "us-east-1" ELSE config.Region

\* endpoint := config.Endpoint; if endpoint == "" { ... }
S3Endpoint(config, region) ==
    IF config.Endpoint # "" THEN config.Endpoint
    ELSE IF region # "" THEN "s3." \o region \o ".amazonaws.com"
    ELSE "s3.amazonaws.com"

SSECError_NoHTTPSCheck(config, v4Signature, https) ==
    IF Len(config.SSECKey) # SSECKeyLen
    THEN "length of SSE-C key must be 32 bytes"
    ELSE IF ~v4Signature THEN "SSE-C key requires v4 signature"
    ELSE ""

\* the three checks made when config.SSECKey != "": the error returned, "" if none
SSECError(config, v4Signature, https) ==
    IF Len(config.SSECKey) # SSECKeyLen
    THEN "length of SSE-C key must be 32 bytes"
    ELSE IF ~v4Signature THEN "SSE-C key requires v4 signature"
    ELSE IF ~https THEN "SSE-C key requires https"
    ELSE ""

\* NewS3Client: the results it can return; ssecOK and minioOK are the
\* outcomes of encrypt.NewSSEC and minio.New
NewS3Client(config, ssecOK, minioOK) ==
    LET v4Signature == stringToBool(config.V4Signature, FALSE)
        region == S3Region(config, v4Signature)
        endpoint == S3Endpoint(config, region)
        creds == IF v4Signature THEN "StaticV4" ELSE "StaticV2"
        https == stringToBool(config.HTTPS, TRUE)
        lookup == IF stringToBool(config.PathStyleRequest, FALSE)
                  THEN "BucketLookupPath" ELSE "BucketLookupDNS"
        sse == config.SSECKey # <<>>
        failed(e, reached) ==
            [called |-> TRUE, err |-> e, client |-> NoClient, minioNew |-> reached]
    IN  IF sse /\ SSECError(config, v4Signature, https) # ""
        THEN failed(SSECError(config, v4Signature, https), FALSE)
        ELSE IF sse /\ ~ssecOK
        THEN failed("failed to load SSE-C key", FALSE)
        ELSE IF ~minioOK
        THEN failed("failed to create s3 client", TRUE)
        ELSE [called |-> TRUE, err |-> "", minioNew |-> TRUE,
              client |-> [isNil |-> FALSE, bucket |-> config.Bucket,
                          sseckey |-> sse, endpoint |-> endpoint,
                          region |-> region, creds |-> creds,
                          secure |-> https, lookup |-> lookup]]

ConfigInit ==
    /\ cfg \in S3Configs
    /\ newRes = NoResult

NewS3ClientCall ==
    /\ ~newRes.called
    /\ \E ssecOK \in BOOLEAN, minioOK \in BOOLEAN :
         newRes' = NewS3Client(cfg, ssecOK, minioOK)
    /\ UNCHANGED cfg

(***************************************************************************)
(* S3Client and OSSClient over a bucket                                    *)
(***************************************************************************)
\* oss.MaxKeys(1000)
MaxKeys == 1000
\* most objects the provider puts in one page of a listing
PageLimit == 2
\* largest object size written
MaxSize == 1
\* most keys passed to one Remove call
MaxRemove == 2

\* the keys of the model, in the provider's listing order
KeyOrder ==
    << <<"a", "/", "b">>, <<"a", "/", "c">>, <<"b", "/", "x">> >>

Keys == {KeyOrder[i] : i \in 1..Len(KeyOrder)}

Prefixes == {<<>>, <<"a", "/">>, <<"b", "/">>}

MetaKeys == {<<"f">>, <<"F">>, <<"g">>}

MetaVals == {"v"}

\* map[string]string values of WriteOptions.Metadata
MetaMaps == UNION {[d -> MetaVals] : d \in SUBSET MetaKeys}

\* the cause a provider reports for a key it could not delete
Causes == {"AccessDenied"}

\* the cause of a request that failed as a whole
RequestCauses == {"RequestTimeout"}

NilErr == [kind |-> "nil", key |-> <<>>, cause |-> ""]

\* an error of the SDK handed on as it is
RawErr(cause) == [kind |-> "raw", key |-> <<>>, cause |-> cause]

\* fmt.Errorf("failed to remove %v: %w", e.ObjectName, e.Err)
RemoveErr(key, cause) == [kind |-> "failed to remove", key |-> key, cause |-> cause]

Absent == [exists |-> FALSE, size |-> 0]

Ret0 ==
    [op |-> "none", err |-> NilErr, prefix |-> <<>>, items |-> <<>>,
     keys |-> <<>>, attempted |-> {}, failed |-> <<>>, sentMeta |-> {},
     watchdogs |-> 0, boundCtx |-> FALSE, streamed |-> FALSE]

StoreInit ==
    /\ adapter \in {"S3", "OSS"}
    /\ store = [k \in Keys |-> Absent]
    /\ ret = Ret0

Min(a, b) == IF a < b THEN a ELSE b

\* ---- Write ----

\* S3Client.Write: opts.UserMetadata after the block of lines 130-137. The
\* loop fills a map with lower-cased keys; the statement after the loop
\* assigns o.Metadata to opts.UserMetadata.
S3UserMetadata(m) ==
    LET afterLoop == {<<ToLower(k), m[k]>> : k \in DOMAIN m}
        afterAssign == {<<k, m[k]>> : k \in DOMAIN m}
    IN  IF Cardinality(DOMAIN m) > 0 THEN afterAssign ELSE {}

\* OSSClient.Write: the oss.Meta options appended
OSSMetaOptions(m) == {<<ToLower(k), m[k]>> : k \in DOMAIN m}

S3Write_NoWatchdog(key, onil, size, m, ok) ==
    IF onil \/ size = 0
    THEN /\ ret' = [Ret0 EXCEPT !.op = "Write",
                                !.err = RawErr("the size option must be specified")]
         /\ UNCHANGED store
    ELSE /\ ret' = [Ret0 EXCEPT !.op = "Write",
                                !.err = IF ok THEN NilErr ELSE RawErr("InternalError"),
                                !.sentMeta = S3UserMetadata(m),
                                !.watchdogs = 0,
                                !.boundCtx = FALSE,
                                !.streamed = TRUE]
         /\ store' = IF ok
                     THEN [store EXCEPT ![key] = [exists |-> TRUE, size |-> size]]
                     ELSE store

\* S3Client.Write; ok is the outcome of backend.PutObject
S3Write(key, onil, size, m, ok) ==
    IF onil \/ size = 0
    THEN /\ ret' = [Ret0 EXCEPT !.op = "Write",
                                !.err = RawErr("the size option must be specified")]
         /\ UNCHANGED store
    ELSE \* ctx, cancel := context.WithCancel(ctx)
         \* reader := newTimeoutReader(r, nil, cancel); defer reader.Close()
         /\ ret' = [Ret0 EXCEPT !.op = "Write",
                                !.err = IF ok THEN NilErr ELSE RawErr("InternalError"),
                                !.sentMeta = S3UserMetadata(m),
                                !.watchdogs = 1,
                                !.boundCtx = TRUE,
                                !.streamed = TRUE]
         /\ store' = IF ok
                     THEN [store EXCEPT ![key] = [exists |-> TRUE, size |-> size]]
                     ELSE store

\* OSSClient.Write; n is the length of the stream, ok the outcome of
\* bucket.PutObject(key, io.NopCloser(r), opts...)
OSSWrite(key, onil, n, m, ok) ==
    /\ ret' = [Ret0 EXCEPT !.op = "Write",
                           !.err = IF ok THEN NilErr ELSE RawErr("InternalError"),
                           !.sentMeta = IF onil THEN {} ELSE OSSMetaOptions(m),
                           !.watchdogs = 0,
                           !.boundCtx = FALSE,
                           !.streamed = TRUE]
    /\ store' = IF ok
                THEN [store EXCEPT ![key] = [exists |-> TRUE, size |-> n]]
                ELSE store

Write ==
    /\ \E key \in Keys, size \in 0..MaxSize, ok \in BOOLEAN :
         \/ \E m \in MetaMaps :
              IF adapter = "S3"
              THEN S3Write(key, FALSE, size, m, ok)
              ELSE OSSWrite(key, FALSE, size, m, ok)
         \/ \* o == nil
            IF adapter = "S3"
            THEN S3Write(key, TRUE, 0, <<>>, ok)
            ELSE OSSWrite(key, TRUE, size, <<>>, ok)
    /\ UNCHANGED adapter

\* ---- Read ----

\* S3Client.Read; ok is the outcome of backend.GetObject
S3Read(key, ok) ==
    ret' = IF ok
           THEN \* r := newTimeoutReader(obj, obj, cancel)
                [Ret0 EXCEPT !.op = "Read", !.watchdogs = 1, !.boundCtx = TRUE,
                             !.streamed = TRUE]
           ELSE \* cancel(); return nil, err
                [Ret0 EXCEPT !.op = "Read", !.err = RawErr("InternalError")]

\* OSSClient.Read: return client.bucket.GetObject(key, oss.WithContext(ctx))
OSSRead(key, ok) ==
    ret' = IF ok /\ store[key].exists
           THEN [Ret0 EXCEPT !.op = "Read", !.streamed = TRUE]
           ELSE [Ret0 EXCEPT !.op = "Read",
                             !.err = RawErr(IF store[key].exists
                                            THEN "InternalError" ELSE "NoSuchKey")]

Read ==
    /\ \E key \in Keys, ok \in BOOLEAN :
         IF adapter = "S3" THEN S3Read(key, ok) ELSE OSSRead(key, ok)
    /\ UNCHANGED <<adapter, store>>

\* ---- Copy ----

\* S3Client.Copy and OSSClient.Copy: both hand the provider's error on;
\* ok is the outcome of CopyObject for an existing source
Copy ==
    /\ \E src \in Keys, dst \in Keys, ok \in BOOLEAN :
         IF store[src].exists /\ ok
         THEN /\ store' = [store EXCEPT ![dst] = store[src]]
              /\ ret' = [Ret0 EXCEPT !.op = "Copy"]
         ELSE /\ UNCHANGED store
              /\ ret' = [Ret0 EXCEPT !.op = "Copy",
                                     !.err = RawErr(IF store[src].exists
                                                    THEN "InternalError"
                                                    ELSE "NoSuchKey")]
    /\ UNCHANGED adapter

\* ---- Remove ----

KeySeqs == UNION {[1..n -> Keys] : n \in 0..MaxRemove}

\* the outcome of deleting each key of a call: "ok" or a cause
Outcomes(keys) == [1..Len(keys) -> {"ok"} \cup Causes]

RECURSIVE FailedOf(_, _, _)
\* the failures of a batch in the order of the keys: <<key, cause>>
FailedOf(keys, out, i) ==
    IF i > Len(keys) THEN <<>>
    ELSE (IF out[i] = "ok" THEN <<>> ELSE << <<keys[i], out[i]>> >>)
         \o FailedOf(keys, out, i + 1)

\* the bucket after a batch: a key is deleted when one of its deletions succeeded
AfterDelete(keys, out) ==
    [k \in Keys |->
        IF \E i \in 1..Len(keys) : keys[i] = k /\ out[i] = "ok"
        THEN Absent ELSE store[k]]

RangeOf(seq) == {seq[i] : i \in 1..Len(seq)}

\* S3Client.Remove; out is what backend.RemoveObjects does with each key, and
\* errs, its channel, carries the failures
S3Remove(keys, out) ==
    IF Len(keys) = 0
    THEN /\ ret' = [Ret0 EXCEPT !.op = "Remove"]
         /\ UNCHANGED store
    ELSE LET errs == FailedOf(keys, out, 1)
             err == IF Len(errs) = 0 THEN NilErr
                    ELSE RemoveErr(errs[1][1], errs[1][2])
         IN  /\ ret' = [Ret0 EXCEPT !.op = "Remove", !.keys = keys,
                                    !.attempted = RangeOf(keys),
                                    !.failed = errs, !.err = err]
             /\ store' = AfterDelete(keys, out)

\* OSSClient.Remove: _, err := client.bucket.DeleteObjects(keys, ...); return err.
\* reqErr is the error of the request ("" for none); out is what the provider
\* did with each key when the request went through: the keys it deleted come
\* back in the DeleteObjectsResult, which is dropped.
OSSRemove(keys, reqErr, out) ==
    IF Len(keys) = 0
    THEN /\ ret' = [Ret0 EXCEPT !.op = "Remove"]
         /\ UNCHANGED store
    ELSE IF reqErr # ""
    THEN /\ ret' = [Ret0 EXCEPT !.op = "Remove", !.keys = keys,
                                !.attempted = RangeOf(keys),
                                !.failed = [i \in 1..Len(keys) |-> <<keys[i], reqErr>>],
                                !.err = RawErr(reqErr)]
         /\ UNCHANGED store
    ELSE /\ ret' = [Ret0 EXCEPT !.op = "Remove", !.keys = keys,
                                !.attempted = RangeOf(keys),
                                !.failed = FailedOf(keys, out, 1),
                                !.err = NilErr]
         /\ store' = AfterDelete(keys, out)

Remove ==
    /\ \E keys \in KeySeqs :
         \/ /\ adapter = "S3"
            /\ \E out \in Outcomes(keys) : S3Remove(keys, out)
         \/ /\ adapter = "OSS"
            /\ \E out \in Outcomes(keys) : OSSRemove(keys, "", out)
         \/ /\ adapter = "OSS"
            /\ \E reqErr \in RequestCauses :
                 OSSRemove(keys, reqErr, [i \in 1..Len(keys) |-> reqErr])
    /\ UNCHANGED adapter

\* ---- List ----

\* ObjectItem{Key: obj.Key, Size: obj.Size, ...}
ObjectItem(k) == [Key |-> k, Size |-> store[k].size]

\* the positions in KeyOrder of the stored keys with the prefix, after token
Matching(prefix, token) ==
    {i \in 1..Len(KeyOrder) :
        /\ i > token
        /\ store[KeyOrder[i]].exists
        /\ HasPrefix(KeyOrder[i], prefix)}

RECURSIVE Ascending(_)
\* a set of positions as an ascending sequence
Ascending(S) ==
    IF S = {} THEN <<>>
    ELSE LET lo == CHOOSE i \in S : \A j \in S : i <= j
         IN  <<lo>> \o Ascending(S \ {lo})

\* the provider's ListObjectsV2: one page after the continuation token
\* (a position in KeyOrder, 0 for the empty token)
ListObjectsV2(prefix, token, maxKeys) ==
    LET all == Ascending(Matching(prefix, token))
        n == Min(Len(all), Min(maxKeys, PageLimit))
    IN  [Objects |-> [i \in 1..n |-> KeyOrder[all[i]]],
         IsTruncated |-> Len(all) > n,
         NextContinuationToken |-> IF n = 0 THEN token ELSE all[n]]

AppendPage_Overwrite(items, objects) ==
    [i \in 1..Len(objects) |-> ObjectItem(objects[i])]

\* for _, obj := range list.Objects { items = append(items, ObjectItem{...}) }
AppendPage(items, objects) ==
    items \o [i \in 1..Len(objects) |-> ObjectItem(objects[i])]

RECURSIVE OSSListLoop(_, _, _, _, _)
\* OSSClient.List: the loop; the request for page failPage fails (0: none does)
OSSListLoop(prefix, token, items, page, failPage) ==
    IF page = failPage
    THEN [items |-> <<>>, err |-> RawErr("InternalError")]
    ELSE LET list == ListObjectsV2(prefix, token, MaxKeys)
             items2 == AppendPage(items, list.Objects)
         IN  IF ~list.IsTruncated
             THEN [items |-> items2, err |-> NilErr]
             ELSE OSSListLoop(prefix, list.NextContinuationToken, items2,
                              page + 1, failPage)

OSSList(prefix, failPage) == OSSListLoop(prefix, 0, <<>>, 1, failPage)

\* the channel of backend.ListObjects with opts.Recursive: every matching
\* object, or the objects before position failAt and then one carrying Err
ListObjects(prefix, failAt) ==
    LET all == Ascending(Matching(prefix, 0))
        objs == [i \in 1..Len(all) |-> [Key |-> KeyOrder[all[i]], Err |-> ""]]
    IN  IF failAt = 0 \/ failAt > Len(all) + 1 THEN objs
        ELSE SubSeq(objs, 1, failAt - 1) \o <<[Key |-> <<>>, Err |-> "InternalError"]>>

RECURSIVE S3ListLoop(_, _, _, _)
\* S3Client.List: for obj := range objs { ... }
S3ListLoop(objs, i, items, err) ==
    IF i > Len(objs)
    THEN IF err # "" THEN [items |-> <<>>, err |-> RawErr(err)]
         ELSE [items |-> items, err |-> NilErr]
    ELSE IF objs[i].Err # ""
    THEN S3ListLoop(objs, i + 1, items, objs[i].Err)
    ELSE S3ListLoop(objs, i + 1, Append(items, ObjectItem(objs[i].Key)), err)

S3List(prefix, failAt) == S3ListLoop(ListObjects(prefix, failAt), 1, <<>>, "")

List ==
    /\ \E prefix \in Prefixes, fail \in 0..(Len(KeyOrder) + 1) :
         LET got == IF adapter = "S3" THEN S3List(prefix, fail)
                    ELSE OSSList(prefix, fail)
         IN  ret' = [Ret0 EXCEPT !.op = "List", !.prefix = prefix,
                                 !.items = got.items, !.err = got.err]
    /\ UNCHANGED <<adapter, store>>

(***************************************************************************)
(* Specifications                                                          *)
(***************************************************************************)
IdleReader ==
    /\ now = 0 /\ tickPending = FALSE /\ tpc = "done" /\ readed = 0
    /\ closed = FALSE /\ hasC = FALSE /\ ctxCancelled = FALSE
    /\ timerCancels = 0 /\ closeCancels = 0 /\ cCloseCalls = 0
    /\ rpc = "idle" /\ rn = 0 /\ cpc = "idle" /\ closeCalls = 0
    /\ closesDone = 0 /\ lastByte = 0 /\ closeTime = 0 /\ delivered = 0
    /\ closedAtLoad = FALSE /\ recvAfterClose = 0 /\ tickOutcome = "none"
    /\ closedAtCancel = FALSE /\ deliveredAtSwap = 0

IdleStore == adapter = "S3" /\ store = [k \in Keys |-> Absent] /\ ret = Ret0

IdleConfig == cfg = (CHOOSE c \in S3Configs : TRUE) /\ newRes = NoResult

\* one TimeoutReader, its timer goroutine and its caller
Init == ReaderInit /\ IdleStore /\ IdleConfig

Next ==
    \/ Tick /\ UNCHANGED <<storeVars, configVars>>
    \/ ReadSrc /\ UNCHANGED <<storeVars, configVars>>
    \/ ReadAdd /\ UNCHANGED <<storeVars, configVars>>
    \/ CloseStore /\ UNCHANGED <<storeVars, configVars>>
    \/ CloseCancel /\ UNCHANGED <<storeVars, configVars>>
    \/ CloseRelease /\ UNCHANGED <<storeVars, configVars>>
    \/ TimerRecv /\ UNCHANGED <<storeVars, configVars>>
    \/ TimerLoadClosed /\ UNCHANGED <<storeVars, configVars>>
    \/ TimerSwap /\ UNCHANGED <<storeVars, configVars>>
    \/ TimerCancel /\ UNCHANGED <<storeVars, configVars>>

Spec == Init /\ [][Next]_vars

\* one client of either adapter over one bucket
InitStore == StoreInit /\ IdleReader /\ IdleConfig

NextStore ==
    \/ Write /\ UNCHANGED <<readerVars, configVars>>
    \/ Read /\ UNCHANGED <<readerVars, configVars>>
    \/ Copy /\ UNCHANGED <<readerVars, configVars>>
    \/ Remove /\ UNCHANGED <<readerVars, configVars>>
    \/ List /\ UNCHANGED <<readerVars, configVars>>

SpecStore == InitStore /\ [][NextStore]_vars

\* one call of NewS3Client
InitConfig == ConfigInit /\ IdleReader /\ IdleStore

NextConfig ==
    \/ NewS3ClientCall /\ UNCHANGED <<readerVars, storeVars>>

SpecConfig == InitConfig /\ [][NextConfig]_vars

(***************************************************************************)
(* Properties of TimeoutReader, checked under Spec                         *)
(***************************************************************************)

\* C1 as stated: while the consumer has not closed the reader, the context
\* is cancelled no later than one tick period after the last byte was read.
C1_CancelWithinOneInterval ==
    (closeCalls = 0 /\ ~ctxCancelled) => now - lastByte <= TickUnits

\* C1 as amended: while the consumer has not closed the reader, the context
\* is cancelled no later than two tick periods after the last byte was read
\* (a byte read after a tick is only missed at the second tick after it).
C1_CancelWithinTwoIntervals ==
    (closeCalls = 0 /\ ~ctxCancelled) => now - lastByte <= 2 * TickUnits

\* the timer cancelled a reader that was never closed, more than one tick
\* period after its last byte
C1_Witness ==
    /\ timerCancels = 1
    /\ closeCalls = 0
    /\ lastByte > 0
    /\ now - lastByte > TickUnits

\* C6 as stated: Close is idempotent. Once a Close has returned the closed
\* flag is set and the context cancelled, and however many times Close is
\* called the auxiliary resource is released once if present, never twice.
C6_CloseIdempotent ==
    /\ closesDone >= 1 => (closed /\ ctxCancelled)
    /\ (closesDone >= 1 /\ hasC) => cCloseCalls >= 1
    /\ cCloseCalls <= 1

\* C8 as stated: the timer task never calls cancel after Close has set the
\* closed flag.
C8_NoTimerCancelAfterClose == timerCancels > 0 => ~closedAtCancel

\* C8 as amended: the timer task calls cancel only at a tick at which its
\* own load of the closed flag returned false; a Close that sets the flag
\* between that load and the call does not stop the call.
C8_TimerCancelOnlyIfLoadedOpen ==
    (tpc \in {"swap", "cancel"} \/ timerCancels > 0) => ~closedAtLoad

\* the timer called cancel after Close had set the flag, having loaded the
\* flag before
C8_Witness == timerCancels = 1 /\ closedAtCancel /\ ~closedAtLoad

\* C9: at a tick at which a byte has been returned through Read since the
\* timer's previous inspection of the counter, the timer resets the counter
\* to zero, does not call cancel and goes on waiting for the next tick; and
\* the timer calls cancel only when no byte was returned since then.
C9_ProgressNeverCancelled ==
    /\ [][(tpc = "swap" /\ tpc' # "swap" /\ delivered > 0)
            => (readed' = 0 /\ tpc' = "wait" /\ timerCancels' = timerCancels
                /\ ctxCancelled' = ctxCancelled)]_vars
    /\ []((tpc = "cancel" \/ timerCancels > 0) => deliveredAtSwap = 0)

\* a reader that was read between the ticks got through two ticks, the
\* counter reset at the last one, and is still watched
C9_Witness ==
    /\ tickOutcome = "reset"
    /\ tpc = "wait"
    /\ timerCancels = 0
    /\ closeCalls = 0
    /\ ~ctxCancelled
    /\ now >= 2 * TickUnits

\* C10: once Close has been called, the timer task has returned by the end
\* of its handling of the first tick after the Close, which comes within one
\* tick period of the Close.
C10_TimerEndsAfterClose ==
    (closeCalls > 0 /\ tpc # "done") =>
        /\ now - closeTime <= TickUnits
        /\ recvAfterClose = 0 \/ (recvAfterClose = 1 /\ tpc = "load")

\* the timer returned because it found the closed flag set
C10_Witness ==
    /\ closeCalls > 0
    /\ tpc = "done"
    /\ tickOutcome = "closed"
    /\ timerCancels = 0
    /\ recvAfterClose = 1

(***************************************************************************)
(* Properties of the clients, checked under SpecStore                      *)
(***************************************************************************)

\* C2 as stated: Remove with one or more keys attempts every key; it returns
\* nil exactly when no key failed, and otherwise an error naming the first
\* key that failed and carrying its cause.
C2_RemoveReportsFirstFailure ==
    (ret.op = "Remove" /\ Len(ret.keys) > 0) =>
        /\ ret.attempted = RangeOf(ret.keys)
        /\ (ret.err = NilErr) <=> (Len(ret.failed) = 0)
        /\ Len(ret.failed) > 0 =>
              /\ ret.err.key = ret.failed[1][1]
              /\ ret.err.cause = ret.failed[1][2]

\* the keys stored under the prefix of the last List call
StoredUnder(prefix) == {k \in Keys : store[k].exists /\ HasPrefix(k, prefix)}

\* C3: a List that returns no error returns one item for every stored key
\* with the prefix and nothing else, each key once, with the stored size.
C3_ListExact ==
    (ret.op = "List" /\ ret.err = NilErr) =>
        /\ {ret.items[i].Key : i \in 1..Len(ret.items)} = StoredUnder(ret.prefix)
        /\ Len(ret.items) = Cardinality(StoredUnder(ret.prefix))
        /\ \A i \in 1..Len(ret.items) :
              ret.items[i].Size = store[ret.items[i].Key].size

\* an OSS listing that took more than one page
C3_Witness ==
    /\ adapter = "OSS"
    /\ ret.op = "List"
    /\ ret.err = NilErr
    /\ Len(ret.items) > PageLimit

\* C4 as stated: every metadata key a Write hands to the provider is lower
\* case.
C4_MetaKeysLowerCase ==
    ret.op = "Write" => \A p \in ret.sentMeta : p[1] = ToLower(p[1])

SSECAcceptable(config) ==
    /\ Len(config.SSECKey) = 32
    /\ config.V4Signature = "true"
    /\ config.HTTPS # "false"

\* C5: with an SSE-C key in the configuration, NewS3Client returns a client
\* only if the key is 32 bytes long, the V4 signature is selected and the
\* transport is HTTPS; otherwise it returns an error and no client, without
\* having called minio.New.
C5_SSECValidated ==
    (newRes.called /\ cfg.SSECKey # <<>>) =>
        /\ ~newRes.client.isNil => (SSECAcceptable(cfg) /\ newRes.client.sseckey)
        /\ ~SSECAcceptable(cfg) =>
              (newRes.err # "" /\ newRes.client.isNil /\ ~newRes.minioNew)
        /\ newRes.client.isNil <=> newRes.err # ""

\* a 32-byte key with the V4 signature over plain HTTP was refused
C5_Witness ==
    /\ newRes.called
    /\ Len(cfg.SSECKey) = 32
    /\ cfg.V4Signature = "true"
    /\ cfg.HTTPS = "false"
    /\ newRes.err = "SSE-C key requires https"
    /\ newRes.client.isNil

=============================================================================
